---- MODULE Spec2Model ----
(***************************************************************************)
(* Model of the update-ingestion loop of 2at2/telegram-api (src/bot.go):   *)
(* Bot.Listen / Bot.poll, the classifier inlined in poll, the three sink    *)
(* channels with their consumers, the stop channel and the WaitGroup.       *)
(*                                                                          *)
(* The goroutine running Listen is cut at its blocking calls: the select    *)
(* at the top of the loop, the call of getUpdates, time.Sleep and a channel *)
(* send.  Update identifiers stay far below the int64 range.                *)
(***************************************************************************)
EXTENDS Integers, Sequences, FiniteSets, TLC

\* ---- bounds -------------------------------------------------------------
\* largest update identifier the transport ever hands out
MaxId == 3
\* largest number of updates in one batch
MaxBatch == 3
\* capacity of every non-nil sink channel
ChanCap == 1
\* largest number of updates a transport with a fixed limit returns per call
Limit == 2

\* ---- program constants --------------------------------------------------
\* time.Second, in nanoseconds (the unit of time.Duration)
Second == 1000000000

\* ---- values -------------------------------------------------------------
\* a nil error: a word that is no error description
NoErr == <<0>>
\* the transport holds no update (yet) for an identifier
NoUpdate == [ID |-> 0, Payload |-> FALSE, Callback |-> FALSE, Query |-> FALSE]

SinkNames == {"Messages", "Queries", "Callbacks"}

\* An Update: its ID and, for each pointer field, whether it is non-nil.
\* The value a sink receives is identified by the ID of its update.
Update == [ID : 1..MaxId, Payload : BOOLEAN, Callback : BOOLEAN, Query : BOOLEAN]

\* Error descriptions are words over a two-letter alphabet; ConflictText
\* stands for "terminated by other long poll or webhook".
ConflictText == <<1, 2>>

\* the descriptions of the errors getUpdates returns: the conflict text
\* alone, the conflict text after a prefix, and two descriptions without it
ErrTexts == {<<1, 2>>, <<2, 1, 2>>, <<2, 1>>, <<>>}

\* the cooldowns a caller configures (Bot.MultiWait is 0 until it does)
Waits == {Second \div 2}

\* the timeouts a caller passes to Listen
Timeouts == {Second + Second \div 2}

\* the tokens a caller passes to NewBot
Tokens == {"111:AAA", "222:BBB"}

\* the users getMe resolves a token to, by User.ID; 0 is the zero User
Users == {7, 8}

\* a nil *Bot
NilBot == [isNil |-> TRUE, Token |-> "", Identity |-> 0]

\* what getMe returns: a user and a nil error, or an error
GetMeResults ==
    {[user |-> u, err |-> NoErr] : u \in Users} \cup
    {[user |-> 0, err |-> e] : e \in ErrTexts}

\* ---- pure helpers -------------------------------------------------------
\* strings.Index(s, sub): the first 0-based position of sub in s, or -1
StringsIndex(s, sub) ==
    LET hits == {i \in 0..(Len(s) - Len(sub)) :
                    \A k \in 1..Len(sub) : s[i + k] = sub[k]}
    IN  IF hits = {} THEN -1
        ELSE CHOOSE i \in hits : \A j \in hits : i <= j

\* the test written with >= -1: every error is taken for a conflict
IsConflict_any(err) == StringsIndex(err, ConflictText) >= -1

\* bot.go:72  the test that selects the cooldown
IsConflict(err) == StringsIndex(err, ConflictText) > -1

\* Go's integer division, truncating toward zero
TruncDiv(a, b) ==
    IF (a >= 0) = (b > 0) THEN (IF a >= 0 THEN a ELSE -a) \div (IF b > 0 THEN b ELSE -b)
    ELSE -((IF a >= 0 THEN a ELSE -a) \div (IF b > 0 THEN b ELSE -b))

\* the timeout rounded to the nearest second
TimeoutSeconds_round(t) == (t + Second \div 2) \div Second

\* bot.go:67  int64(timeout/time.Second)
TimeoutSeconds(t) == TruncDiv(t, Second)

\* the cursor itself is requested: the last update is fetched again
MinIdentifier_same(cur) == cur

\* one identifier is skipped
MinIdentifier_skip(cur) == cur + 2

\* bot.go:66  the minIdentifier of a fetch
MinIdentifier(cur) == cur + 1

\* the cooldown doubled
SleepFor_double(multiWait) == multiWait + multiWait

\* bot.go:74  the argument of time.Sleep
SleepFor(multiWait) == multiWait

\* Target testing the fields in the order the Update struct declares them
\* (Payload, Callback, Query)
Target_callbackFirst(u) ==
    IF u.Payload THEN "Messages"
    ELSE IF u.Callback THEN "Callbacks"
    ELSE IF u.Query THEN "Queries"
    ELSE "None"

\* Target with a last branch that takes every other update for a callback
Target_default(u) ==
    IF u.Payload THEN "Messages"
    ELSE IF u.Query THEN "Queries"
    ELSE "Callbacks"

\* bot.go:80,86,92  the classifier: the sink an update is routed to
Target(u) ==
    IF u.Payload THEN "Messages"
    ELSE IF u.Query THEN "Queries"
    ELSE IF u.Callback THEN "Callbacks"
    ELSE "None"

VARIABLES
    pc,            \* position of the Listen goroutine
    latestUpdate,  \* poll's cursor
    updates,       \* the batch poll is ranging over
    idx,           \* position in updates of the next update to process
    reqMin,        \* minIdentifier of the last call of getUpdates
    reqTimeout,    \* timeoutSeconds of the last call of getUpdates
    lastErr,       \* err of the last return of getUpdates
    sinks,         \* the sinks Listen was given a non-nil channel for
    chans,         \* sink name -> the buffer of its channel
    closed,        \* the sinks the caller has closed
    sent,          \* sink name -> every value poll has sent, in order
    stop,          \* whether the stop channel is ready for receive
    stopBetween,   \* stop was raised between two fetches
    MultiWait,     \* Bot.MultiWait
    timeout,       \* Listen's timeout argument
    sleepDur,      \* argument of the last time.Sleep
    sleeps,        \* number of time.Sleep returns since the last fetch returned
    log,           \* identifier -> the update the transport holds for it
    maxFetched,    \* largest identifier getUpdates has returned so far
    shapes,        \* the field combinations the transport produces
    wgDone,        \* number of calls of wg.Done
    token,         \* NewBot's argument
    me,            \* what getMe returned to NewBot
    bot,           \* the *Bot NewBot returned
    newErr,        \* the error NewBot returned
    durations      \* the timeouts the caller chooses from

vars == <<pc, latestUpdate, updates, idx, reqMin, reqTimeout, lastErr, sinks,
          chans, closed, sent, stop, stopBetween, MultiWait, timeout, sleepDur,
          sleeps, log, maxFetched, shapes, wgDone, token, me, bot, newErr,
          durations>>

\* what the Listen goroutine owns or writes
loopVars == <<pc, latestUpdate, updates, idx, reqMin, reqTimeout, lastErr,
              sent, sleepDur, sleeps, wgDone>>
\* what the caller passes to Listen or configures
callVars == <<sinks, MultiWait, timeout>>
\* what the transport holds
netVars == <<log, maxFetched, shapes>>
\* what the call of NewBot took and returned
botVars == <<token, me, bot, newErr>>

\* ---- the transport (getUpdates) -----------------------------------------
Ascending(s) == \A i \in 1..(Len(s) - 1) : s[i] < s[i + 1]

Range(s) == {s[i] : i \in 1..Len(s)}

\* The identifiers of the batches getUpdates may return for minIdentifier
\* min: ascending, all >= min, at most MaxBatch of them.
BatchIds(min) ==
    {s \in UNION {[1..n -> (IF min < 1 THEN 1 ELSE min)..MaxId] : n \in 0..MaxBatch} : Ascending(s)}

\* the pointer fields an update may have set
Fields == [Payload : BOOLEAN, Callback : BOOLEAN, Query : BOOLEAN]

\* the updates of the Bot API: a message, an inline query, a callback query,
\* or an update of another type, which sets none of the three fields
OneVariant ==
    {f \in Fields : Cardinality({n \in {"Payload", "Callback", "Query"} : f[n]}) <= 1}

\* the logs that agree with log and also hold an update for every id of ids
Extensions(ids) ==
    LET new == {i \in ids : log[i] = NoUpdate}
    IN  {[i \in 1..MaxId |->
            IF i \in new
            THEN [ID |-> i, Payload |-> f[i].Payload, Callback |-> f[i].Callback,
                  Query |-> f[i].Query]
            ELSE log[i]] : f \in [new -> shapes]}

\* A call with minIdentifier min confirms every update below min: the
\* transport drops them.
Confirm(min) == [i \in 1..MaxId |-> IF i < min THEN NoUpdate ELSE log[i]]

\* ---- NewBot -------------------------------------------------------------
\* bot.go:31-34  &Bot{Token: token, Identity: user}
BotOf(tk, user) == [isNil |-> FALSE, Token |-> tk, Identity |-> user]

\* the error of getMe is not looked at: a Bot is built from whatever came back
NewBot_ignoreErr ==
    /\ pc = "new"
    /\ \E tk \in Tokens, r \in GetMeResults :
          /\ token' = tk
          /\ me' = r
          /\ bot' = BotOf(tk, r.user)
          /\ newErr' = NoErr
          /\ pc' = "ready"
    /\ UNCHANGED <<latestUpdate, updates, idx, reqMin, reqTimeout, lastErr, sent,
                   sleepDur, sleeps, wgDone, callVars, netVars, chans, closed, stop,
                   stopBetween, durations>>

\* bot.go:25-35  NewBot(token)
NewBot ==
    /\ pc = "new"
    /\ \E tk \in Tokens, r \in GetMeResults :
          /\ token' = tk
          /\ me' = r
          /\ IF r.err # NoErr
             THEN \* bot.go:27-29  return nil, err
                  /\ bot' = NilBot
                  /\ newErr' = r.err
                  /\ pc' = "failed"
             ELSE \* bot.go:31-34
                  /\ bot' = BotOf(tk, r.user)
                  /\ newErr' = NoErr
                  /\ pc' = "ready"
    /\ UNCHANGED <<latestUpdate, updates, idx, reqMin, reqTimeout, lastErr, sent,
                   sleepDur, sleeps, wgDone, callVars, netVars, chans, closed, stop,
                   stopBetween, durations>>

\* ---- Init ---------------------------------------------------------------
\* NewBot has returned a Bot; Listen has not been called.
Init ==
    /\ token = "111:AAA"
    /\ me = [user |-> 7, err |-> NoErr]
    /\ bot = BotOf(token, me.user)
    /\ newErr = NoErr
    /\ durations = Timeouts
    /\ pc = "ready"
    /\ latestUpdate = 0
    /\ updates = <<>>
    /\ idx = 1
    /\ reqMin = 0
    /\ reqTimeout = 0
    /\ lastErr = NoErr
    /\ sinks = {}
    /\ chans = [s \in SinkNames |-> <<>>]
    /\ closed = {}
    /\ sent = [s \in SinkNames |-> <<>>]
    /\ stop = FALSE
    /\ stopBetween = FALSE
    /\ MultiWait = 0
    /\ timeout = 0
    /\ sleepDur = 0
    /\ sleeps = 0
    /\ log = [i \in 1..MaxId |-> NoUpdate]
    /\ maxFetched = 0
    /\ shapes = OneVariant
    /\ wgDone = 0

\* ---- the caller ---------------------------------------------------------
\* The caller configures Bot.MultiWait before it starts the loop.
SetMultiWait ==
    /\ pc = "ready"
    /\ MultiWait = 0
    /\ \E w \in Waits : MultiWait' = w
    /\ UNCHANGED <<botVars, durations, loopVars, netVars, sinks, timeout, chans, closed, stop, stopBetween>>

\* wg.Done called at the start of Listen instead of deferred
Listen_doneEarly ==
    /\ pc \in {"ready", "failed"}
    /\ \E nonNil \in SUBSET SinkNames, t \in durations :
          /\ sinks' = nonNil
          /\ timeout' = t
    /\ pc' = "select"
    /\ latestUpdate' = 0
    /\ wgDone' = wgDone + 1
    /\ UNCHANGED <<botVars, durations, updates, idx, reqMin, reqTimeout, lastErr, sent, sleepDur, sleeps,
                   netVars, MultiWait, chans, closed, stop, stopBetween>>

\* go bot.Listen(messages, queries, callbacks, timeout, stop, wg):
\* poll starts with latestUpdate = 0.
Listen ==
    /\ pc \in {"ready", "failed"}
    /\ \E nonNil \in SUBSET SinkNames, t \in durations :
          /\ sinks' = nonNil
          /\ timeout' = t
    /\ pc' = "select"
    /\ latestUpdate' = 0
    /\ UNCHANGED <<botVars, durations, updates, idx, reqMin, reqTimeout, lastErr, sent, sleepDur, sleeps,
                   wgDone, netVars, MultiWait, chans, closed, stop, stopBetween>>

\* The caller raises the cancellation signal (sends on or closes stop).
Stop ==
    /\ pc \notin {"new", "failed", "ready"}
    /\ ~stop
    /\ stop' = TRUE
    /\ stopBetween' = (pc = "select")
    /\ UNCHANGED <<botVars, durations, loopVars, callVars, netVars, chans, closed>>

\* A consumer receives the oldest value of a sink.
Consume ==
    /\ \E s \in sinks :
          /\ chans[s] # <<>>
          /\ chans' = [chans EXCEPT ![s] = Tail(@)]
    /\ UNCHANGED <<botVars, durations, loopVars, callVars, netVars, closed, stop, stopBetween>>

\* The caller closes a sink once the completion handle has fired.
CloseSink ==
    /\ wgDone > 0
    /\ \E s \in sinks \ closed : closed' = closed \cup {s}
    /\ UNCHANGED <<botVars, durations, loopVars, callVars, netVars, chans, stop, stopBetween>>

\* ---- Bot.poll and Bot.Listen --------------------------------------------
\* the stop case leaves the select, not the for loop: the value is taken
\* from stop and the loop goes on
SelectStop_break ==
    /\ pc = "select"
    /\ stop
    /\ stop' = FALSE
    /\ UNCHANGED <<botVars, durations, pc, latestUpdate, updates, idx, reqMin,
                   reqTimeout, lastErr, sent, sleepDur, sleeps, wgDone, callVars,
                   netVars, chans, closed, stopBetween>>

\* bot.go:61-63  the stop channel is ready: poll returns
SelectStop ==
    /\ pc = "select"
    /\ stop
    /\ pc' = "returned"
    /\ UNCHANGED <<botVars, durations, latestUpdate, updates, idx, reqMin, reqTimeout, lastErr, sent,
                   sleepDur, sleeps, wgDone, callVars, netVars, chans, closed, stop,
                   stopBetween>>

\* the select without its stop case: poll fetches although stop is ready
CallGetUpdates_noStop ==
    /\ pc = "select"
    /\ pc' = IF bot.isNil THEN "panic" ELSE "fetching"
    /\ reqMin' = IF bot.isNil THEN reqMin ELSE MinIdentifier(latestUpdate)
    /\ reqTimeout' = IF bot.isNil THEN reqTimeout ELSE TimeoutSeconds(timeout)
    /\ log' = Confirm(reqMin')
    /\ lastErr' = NoErr
    /\ sleepDur' = 0
    /\ sleeps' = 0
    /\ UNCHANGED <<botVars, durations, latestUpdate, updates, idx, sent, wgDone, callVars, maxFetched,
                   shapes, chans, closed, stop, stopBetween>>

\* bot.go:64-68  the default case: poll calls getUpdates; reading b.Token
\* of a nil *Bot panics
CallGetUpdates ==
    /\ pc = "select"
    /\ ~stop
    /\ pc' = IF bot.isNil THEN "panic" ELSE "fetching"
    /\ reqMin' = IF bot.isNil THEN reqMin ELSE MinIdentifier(latestUpdate)
    /\ reqTimeout' = IF bot.isNil THEN reqTimeout ELSE TimeoutSeconds(timeout)
    /\ log' = Confirm(reqMin')
    /\ lastErr' = NoErr
    /\ sleepDur' = 0
    /\ sleeps' = 0
    /\ UNCHANGED <<botVars, durations, latestUpdate, updates, idx, sent, wgDone, callVars, maxFetched,
                   shapes, chans, closed, stop, stopBetween>>

\* poll gives up on an error that is no conflict
GetUpdatesErr_giveUp ==
    /\ pc = "fetching"
    /\ \E e \in ErrTexts :
          /\ lastErr' = e
          /\ IF IsConflict(e)
             THEN pc' = "sleeping" /\ sleepDur' = SleepFor(MultiWait)
             ELSE pc' = "returned" /\ sleepDur' = sleepDur
    /\ UNCHANGED <<botVars, durations, latestUpdate, updates, idx, reqMin, reqTimeout, sent, sleeps,
                   wgDone, callVars, netVars, chans, closed, stop, stopBetween>>

\* poll steps over the requested identifier when the fetch fails
GetUpdatesErr_skip ==
    /\ pc = "fetching"
    /\ \E e \in ErrTexts :
          /\ lastErr' = e
          /\ IF IsConflict(e)
             THEN pc' = "sleeping" /\ sleepDur' = SleepFor(MultiWait)
             ELSE pc' = "select" /\ sleepDur' = sleepDur
    /\ latestUpdate' = reqMin
    /\ UNCHANGED <<botVars, durations, updates, idx, reqMin, reqTimeout, sent, sleeps,
                   wgDone, callVars, netVars, chans, closed, stop, stopBetween>>

\* bot.go:70-77  getUpdates returns an error
GetUpdatesErr ==
    /\ pc = "fetching"
    /\ \E e \in ErrTexts :
          /\ lastErr' = e
          /\ IF IsConflict(e)
             THEN pc' = "sleeping" /\ sleepDur' = SleepFor(MultiWait)
             ELSE pc' = "select" /\ sleepDur' = sleepDur
    /\ UNCHANGED <<botVars, durations, latestUpdate, updates, idx, reqMin, reqTimeout, sent, sleeps,
                   wgDone, callVars, netVars, chans, closed, stop, stopBetween>>

\* bot.go:74-76  time.Sleep returns; continue
SleepReturn ==
    /\ pc = "sleeping"
    /\ pc' = "select"
    /\ sleeps' = sleeps + 1
    /\ UNCHANGED <<botVars, durations, latestUpdate, updates, idx, reqMin, reqTimeout, lastErr, sent,
                   sleepDur, wgDone, callVars, netVars, chans, closed, stop,
                   stopBetween>>

\* bot.go:65,79  getUpdates returns a batch
GetUpdatesOk ==
    /\ pc = "fetching"
    /\ \E ids \in BatchIds(reqMin) :
          \E l \in Extensions(Range(ids)) :
             /\ log' = l
             /\ updates' = [i \in 1..Len(ids) |-> l[ids[i]]]
             /\ maxFetched' = IF ids # <<>> /\ ids[Len(ids)] > maxFetched
                              THEN ids[Len(ids)] ELSE maxFetched
             /\ pc' = IF ids = <<>> THEN "select" ELSE "dispatch"
    /\ idx' = 1
    /\ UNCHANGED <<botVars, durations, latestUpdate, reqMin, reqTimeout, lastErr, sent, sleepDur, sleeps,
                   wgDone, callVars, shapes, chans, closed, stop, stopBetween>>

\* bot.go:79,101  the range loop moves on; after the last update poll is
\* back at the select
RangeNext ==
    IF idx = Len(updates)
    THEN pc' = "select" /\ updates' = <<>> /\ idx' = 1
    ELSE pc' = "dispatch" /\ updates' = updates /\ idx' = idx + 1

\* the range loop looks at stop before every update and returns when it is
\* ready, leaving the rest of the batch
ProcessUpdate_preempt ==
    /\ pc = "dispatch"
    /\ LET update == updates[idx]
           t == Target(update)
       IN  IF stop
           THEN /\ pc' = "returned"
                /\ UNCHANGED <<latestUpdate, updates, idx, chans, sent>>
           ELSE IF t = "None"
           THEN /\ latestUpdate' = update.ID
                /\ RangeNext
                /\ UNCHANGED <<chans, sent>>
           ELSE IF t \notin sinks
           THEN /\ RangeNext
                /\ UNCHANGED <<latestUpdate, chans, sent>>
           ELSE IF t \in closed
           THEN /\ pc' = "panic"
                /\ UNCHANGED <<latestUpdate, updates, idx, chans, sent>>
           ELSE /\ Len(chans[t]) < ChanCap
                /\ chans' = [chans EXCEPT ![t] = Append(@, update.ID)]
                /\ sent' = [sent EXCEPT ![t] = Append(@, update.ID)]
                /\ latestUpdate' = update.ID
                /\ RangeNext
    /\ UNCHANGED <<botVars, durations, reqMin, reqTimeout, lastErr, sleepDur, sleeps,
                   wgDone, callVars, netVars, closed, stop, stopBetween>>

\* ProcessUpdate with a send that gives up when the buffer is full
\* (select with a default case): the update is skipped, the loop goes on.
ProcessUpdate_drop ==
    /\ pc = "dispatch"
    /\ LET update == updates[idx]
           t == Target(update)
       IN  IF t = "None"
           THEN /\ latestUpdate' = update.ID
                /\ RangeNext
                /\ UNCHANGED <<chans, sent>>
           ELSE IF t \notin sinks
           THEN /\ RangeNext
                /\ UNCHANGED <<latestUpdate, chans, sent>>
           ELSE IF t \in closed
           THEN /\ pc' = "panic"
                /\ UNCHANGED <<latestUpdate, updates, idx, chans, sent>>
           ELSE IF Len(chans[t]) >= ChanCap
           THEN /\ latestUpdate' = update.ID
                /\ RangeNext
                /\ UNCHANGED <<chans, sent>>
           ELSE /\ chans' = [chans EXCEPT ![t] = Append(@, update.ID)]
                /\ sent' = [sent EXCEPT ![t] = Append(@, update.ID)]
                /\ latestUpdate' = update.ID
                /\ RangeNext
    /\ UNCHANGED <<botVars, durations, reqMin, reqTimeout, lastErr, sleepDur, sleeps, wgDone, callVars,
                   netVars, closed, stop, stopBetween>>

\* bot.go:79-101  one round of the range loop, for updates[idx]
ProcessUpdate ==
    /\ pc = "dispatch"
    /\ LET update == updates[idx]
           t == Target(update)
       IN  IF t = "None"
           THEN \* bot.go:100  no variant set: nothing is sent
                /\ latestUpdate' = update.ID
                /\ RangeNext
                /\ UNCHANGED <<chans, sent>>
           ELSE IF t \notin sinks
           THEN \* bot.go:81-83,87-89,93-95  continue
                /\ RangeNext
                /\ UNCHANGED <<latestUpdate, chans, sent>>
           ELSE IF t \in closed
           THEN \* a send on a closed channel panics
                /\ pc' = "panic"
                /\ UNCHANGED <<latestUpdate, updates, idx, chans, sent>>
           ELSE \* bot.go:85,91,97,100  the send blocks while the buffer is full
                /\ Len(chans[t]) < ChanCap
                /\ chans' = [chans EXCEPT ![t] = Append(@, update.ID)]
                /\ sent' = [sent EXCEPT ![t] = Append(@, update.ID)]
                /\ latestUpdate' = update.ID
                /\ RangeNext
    /\ UNCHANGED <<botVars, durations, reqMin, reqTimeout, lastErr, sleepDur, sleeps, wgDone, callVars,
                   netVars, closed, stop, stopBetween>>

\* bot.go:47  the deferred wg.Done runs when poll has returned
WgDone ==
    /\ pc = "returned"
    /\ pc' = "done"
    /\ wgDone' = wgDone + 1
    /\ UNCHANGED <<botVars, durations, latestUpdate, updates, idx, reqMin, reqTimeout, lastErr, sent,
                   sleepDur, sleeps, callVars, netVars, chans, closed, stop,
                   stopBetween>>

Next ==
    \/ SetMultiWait
    \/ Listen
    \/ Stop
    \/ Consume
    \/ CloseSink
    \/ SelectStop
    \/ CallGetUpdates
    \/ GetUpdatesErr
    \/ SleepReturn
    \/ GetUpdatesOk
    \/ ProcessUpdate
    \/ WgDone

Spec == Init /\ [][Next]_vars

\* ---- other starting points ----------------------------------------------
\* Listen has not been called: poll's variables, the sinks and the stop
\* channel are untouched, Bot.MultiWait is zero.
Idle ==
    /\ latestUpdate = 0
    /\ updates = <<>>
    /\ idx = 1
    /\ reqMin = 0
    /\ reqTimeout = 0
    /\ lastErr = NoErr
    /\ sinks = {}
    /\ chans = [s \in SinkNames |-> <<>>]
    /\ closed = {}
    /\ sent = [s \in SinkNames |-> <<>>]
    /\ stop = FALSE
    /\ stopBetween = FALSE
    /\ MultiWait = 0
    /\ timeout = 0
    /\ sleepDur = 0
    /\ sleeps = 0
    /\ maxFetched = 0
    /\ wgDone = 0

\* NewBot has returned a Bot for the first token and user.
Built ==
    /\ token = "111:AAA"
    /\ me = [user |-> 7, err |-> NoErr]
    /\ bot = BotOf(token, me.user)
    /\ newErr = NoErr
    /\ pc = "ready"

\* ---- construction ---------------------------------------------------------
\* NewBot has not been called; the transport delivers messages only.
InitNew ==
    /\ token = ""
    /\ me = [user |-> 0, err |-> NoErr]
    /\ bot = NilBot
    /\ newErr = NoErr
    /\ pc = "new"
    /\ Idle
    /\ durations = Timeouts
    /\ log = [i \in 1..MaxId |-> NoUpdate]
    /\ shapes = {f \in OneVariant : f.Payload}

NextNew == NewBot \/ Next

SpecNew == InitNew /\ [][NextNew]_vars

\* The Go scheduler runs the Listen goroutine whenever it can take a step.
FairSpec ==
    /\ Spec
    /\ WF_vars(SelectStop)
    /\ WF_vars(CallGetUpdates)
    /\ WF_vars(SleepReturn)
    /\ WF_vars(ProcessUpdate)
    /\ WF_vars(WgDone)

\* ---- cancellation with draining consumers --------------------------------
\* The transport delivers messages and updates of other types.
InitDrain ==
    /\ Built
    /\ Idle
    /\ durations = Timeouts
    /\ log = [i \in 1..MaxId |-> NoUpdate]
    /\ shapes = {f \in OneVariant : ~f.Query /\ ~f.Callback}

\* The Go scheduler runs the Listen goroutine whenever it can take a step;
\* every call of getUpdates returns (the long poll is bounded by its
\* timeout) and the consumers keep receiving from the sinks.
DrainSpec ==
    /\ InitDrain
    /\ [][Next]_vars
    /\ WF_vars(SelectStop)
    /\ WF_vars(CallGetUpdates)
    /\ WF_vars(SleepReturn)
    /\ WF_vars(ProcessUpdate)
    /\ WF_vars(WgDone)
    /\ WF_vars(GetUpdatesOk \/ GetUpdatesErr)
    /\ WF_vars(Consume)

\* ---- updates with several fields set --------------------------------------
\* Payload, Callback and Query are independent pointers of the Update struct:
\* the transport delivers updates that set two or three of them.
InitMulti ==
    /\ Built
    /\ Idle
    /\ durations = Timeouts
    /\ log = [i \in 1..MaxId |-> NoUpdate]
    /\ shapes = Fields \ OneVariant

SpecMulti == InitMulti /\ [][Next]_vars

\* ---- a transport that retains updates ------------------------------------
\* the identifiers of the retained updates at or above min, lowest first, as
\* far as the limit allows
PrefixIds(min) ==
    LET held == {i \in 1..MaxId : i >= min /\ log[i] # NoUpdate}
        n == IF Cardinality(held) < Limit THEN Cardinality(held) ELSE Limit
        RECURSIVE Lowest(_, _)
        Lowest(S, k) ==
            IF k = 0 THEN <<>>
            ELSE LET m == CHOOSE x \in S : \A y \in S : x <= y
                 IN  <<m>> \o Lowest(S \ {m}, k - 1)
    IN  Lowest(held, n)

\* bot.go:65,79  getUpdates returns the retained updates from minIdentifier
\* on, up to the limit; an empty batch when nothing is retained there
GetUpdatesPrefix ==
    /\ pc = "fetching"
    /\ LET ids == PrefixIds(reqMin)
       IN  /\ updates' = [i \in 1..Len(ids) |-> log[ids[i]]]
           /\ maxFetched' = IF ids # <<>> /\ ids[Len(ids)] > maxFetched
                            THEN ids[Len(ids)] ELSE maxFetched
           /\ pc' = IF ids = <<>> THEN "select" ELSE "dispatch"
    /\ idx' = 1
    /\ UNCHANGED <<botVars, durations, latestUpdate, reqMin, reqTimeout, lastErr, sent, sleepDur, sleeps,
                   wgDone, callVars, log, shapes, chans, closed, stop, stopBetween>>

\* The transport holds an update for every identifier.
InitProgress ==
    /\ Built
    /\ Idle
    /\ durations = Timeouts
    /\ shapes = OneVariant
    /\ log \in {[i \in 1..MaxId |->
                   [ID |-> i, Payload |-> f[i].Payload, Callback |-> f[i].Callback,
                    Query |-> f[i].Query]] : f \in [1..MaxId -> OneVariant]}

\* stop is never raised
NextProgress ==
    \/ SetMultiWait
    \/ Listen
    \/ Consume
    \/ CallGetUpdates
    \/ GetUpdatesErr
    \/ SleepReturn
    \/ GetUpdatesPrefix
    \/ ProcessUpdate

\* Listen is called and its goroutine is scheduled fairly; the consumers keep
\* receiving; getUpdates may fail any number of times but succeeds again and
\* again.
ProgressSpec ==
    /\ InitProgress
    /\ [][NextProgress]_vars
    /\ WF_vars(Listen)
    /\ WF_vars(CallGetUpdates)
    /\ WF_vars(SleepReturn)
    /\ WF_vars(ProcessUpdate)
    /\ WF_vars(Consume)
    /\ SF_vars(GetUpdatesPrefix)

\* ---- timeouts of every kind ----------------------------------------------
\* time.Duration is a signed count of nanoseconds: zero, below a second, a
\* whole second, between one and two seconds, and negative ones
AnyTimeouts ==
    {0, Second - 1, Second, Second + Second \div 2, 2 * Second - 1,
     -(Second \div 2), -(Second + Second \div 2)}

\* The caller passes any of these to Listen; the transport delivers messages.
InitTimeout ==
    /\ Built
    /\ Idle
    /\ durations = AnyTimeouts
    /\ log = [i \in 1..MaxId |-> NoUpdate]
    /\ shapes = {f \in OneVariant : f.Payload}

SpecTimeout == InitTimeout /\ [][Next]_vars

\* ---- vocabulary of the properties ---------------------------------------
\* the description e contains "terminated by other long poll or webhook"
HasConflictText(e) ==
    \E i \in 1..Len(e) :
        /\ i + Len(ConflictText) - 1 <= Len(e)
        /\ SubSeq(e, i, i + Len(ConflictText) - 1) = ConflictText

\* this step is one round of the range loop: updates[idx] has been processed
Processes == pc = "dispatch" /\ (pc' = "select" \/ idx' = idx + 1)

\* this step is a call of getUpdates
Fetches == pc = "select" /\ pc' = "fetching"

\* this step is a return of getUpdates with an error
Fails == pc = "fetching" /\ lastErr' # NoErr

\* ---- C1 -----------------------------------------------------------------
\* C1: once an update of a fetched batch has been processed, the cursor
\* equals its identifier, whether it was routed or dropped for a nil sink;
\* an update whose sink is nil is sent nowhere.
C1_CursorAdvancesPastEveryUpdate ==
    [][Processes =>
          /\ latestUpdate' = updates[idx].ID
          /\ (Target(updates[idx]) \notin sinks => sent' = sent)]_vars

\* ---- C2 -----------------------------------------------------------------
\* C2: every update whose sink is non-nil is sent to that sink, and to that
\* sink only, when it is processed; what a sink has received is in strictly
\* ascending identifier order (the order of the transport), so nothing is
\* sent twice or out of order; a nil sink receives nothing.
C2_ExactlyOnceInOrder ==
    /\ [](\A s \in SinkNames : Ascending(sent[s]) /\ (s \notin sinks => sent[s] = <<>>))
    /\ [][IF Processes
          THEN \A s \in SinkNames :
                  sent'[s] = IF s = Target(updates[idx]) /\ s \in sinks
                             THEN Append(sent[s], updates[idx].ID)
                             ELSE sent[s]
          ELSE sent' = sent]_vars

\* two sinks have received updates of several batches while a third is nil
C2_Witness ==
    /\ sinks = {"Messages", "Queries"}
    /\ Len(sent["Messages"]) = 2
    /\ Len(sent["Queries"]) = 1
    /\ pc = "select"

\* ---- C3 -----------------------------------------------------------------
\* C3: every call of getUpdates requests a minIdentifier above the
\* identifier of every update an earlier fetch returned.
C3_NoUpdateFetchedTwice == pc = "fetching" => reqMin > maxFetched

\* ---- C4 -----------------------------------------------------------------
\* C4: the cursor starts at 0 when poll starts, never decreases, and every
\* call of getUpdates requests cursor + 1.
C4_CursorMonotone ==
    /\ [](pc = "fetching" => reqMin = latestUpdate + 1)
    /\ [][latestUpdate' >= latestUpdate]_vars
    /\ [][(pc = "ready" /\ pc' # "ready") => latestUpdate' = 0]_vars

\* a fetch is in flight with the cursor at the largest identifier
C4_Witness == pc = "fetching" /\ latestUpdate = MaxId /\ reqMin = MaxId + 1

\* ---- C5 -----------------------------------------------------------------
\* C5: a fetch that fails with the conflict text leaves the cursor alone
\* and puts poll to sleep; the next fetch comes after exactly one sleep of
\* Bot.MultiWait and requests the same minIdentifier.
C5_ConflictCooldown ==
    /\ [][(Fails /\ HasConflictText(lastErr')) =>
             (pc' = "sleeping" /\ latestUpdate' = latestUpdate /\ sent' = sent)]_vars
    /\ [][(Fetches /\ HasConflictText(lastErr)) =>
             (/\ sleeps = 1
              /\ sleepDur = MultiWait
              /\ latestUpdate' = latestUpdate
              /\ reqMin' = reqMin)]_vars

\* poll is back at the select after the cooldown that followed a conflict,
\* with updates already delivered and a cooldown configured
C5_Witness ==
    /\ pc = "select"
    /\ HasConflictText(lastErr)
    /\ sleeps = 1
    /\ MultiWait > 0
    /\ latestUpdate > 0
    /\ ~stop

\* ---- C6 -----------------------------------------------------------------
\* C6: when stop is raised while poll is between two fetches, poll calls
\* getUpdates no more and sends nothing more, and wg.Done is called.
C6_StopBetweenFetches ==
    /\ [](stopBetween => pc \in {"select", "returned", "done"})
    /\ [][stopBetween => (sent' = sent /\ reqMin' = reqMin /\ ~Fetches)]_vars
    /\ (stopBetween ~> wgDone = 1)

\* Listen is done after a stop raised between two fetches, updates delivered
C6_Witness == stopBetween /\ pc = "done" /\ wgDone = 1 /\ latestUpdate > 0

\* ---- C7 -----------------------------------------------------------------
\* C7: poll has returned, and wg.Done has been called, only if stop was
\* raised.
C7_ReturnsOnlyOnStop == (pc \in {"returned", "done"} \/ wgDone > 0) => stop

\* without stop, poll is at the select again after an error, with updates
\* delivered
C7_Witness == ~stop /\ pc = "select" /\ lastErr # NoErr /\ latestUpdate > 0

\* ---- C8 -----------------------------------------------------------------
\* C8: a fetch that fails without the conflict text takes poll straight
\* back to the select: no sleep, no return, cursor unchanged; the next
\* fetch requests the same minIdentifier.
C8_OtherErrorRetriesAtOnce ==
    /\ [][(Fails /\ ~HasConflictText(lastErr')) =>
             (pc' = "select" /\ latestUpdate' = latestUpdate /\ sleeps' = 0)]_vars
    /\ [][(Fetches /\ lastErr # NoErr /\ ~HasConflictText(lastErr)) =>
             (sleeps = 0 /\ reqMin' = reqMin)]_vars

\* poll is at the select after an error without the conflict text
C8_Witness ==
    /\ pc = "select"
    /\ lastErr # NoErr
    /\ ~HasConflictText(lastErr)
    /\ latestUpdate > 0
    /\ ~stop

\* ---- C9 -----------------------------------------------------------------
\* C9: a failed fetch, and the sleep after it, change neither the cursor
\* nor what the sinks hold or have received; every value a sink has
\* received is the identifier of an update a fetch returned.
C9_ErrorsLeaveStateAlone ==
    /\ [][(Fails \/ (pc = "sleeping" /\ pc' = "select")) =>
             (latestUpdate' = latestUpdate /\ sent' = sent /\ chans' = chans)]_vars
    /\ [](\A s \in SinkNames : \A i \in 1..Len(sent[s]) :
             sent[s][i] \in 1..maxFetched)

\* a fetch has failed while a sink holds a value and the cursor has moved
C9_Witness ==
    /\ lastErr # NoErr
    /\ latestUpdate > 0
    /\ \E s \in sinks : chans[s] # <<>>

\* ---- C10 ----------------------------------------------------------------
\* C10: wg.Done is called once, when poll has returned; from then on there
\* is no fetch and no send; a step that takes a value from a sink or closes
\* it is no step of the loop; no send hits a closed channel.
C10_DoneOnceAfterExit ==
    /\ [](wgDone <= 1 /\ (wgDone = 1 => pc = "done") /\ pc # "panic")
    /\ [][wgDone = 1 => (sent' = sent /\ pc' = pc /\ reqMin' = reqMin)]_vars
    /\ [][((\E s \in SinkNames : Len(chans'[s]) < Len(chans[s])) \/ closed' # closed)
             => UNCHANGED loopVars]_vars
    /\ [][closed' # closed => wgDone = 1]_vars

\* Listen is done, the caller has closed every sink, values were delivered
C10_Witness ==
    /\ wgDone = 1
    /\ sinks # {}
    /\ closed = sinks
    /\ \E s \in sinks : sent[s] # <<>>

\* ---- C11 ----------------------------------------------------------------
\* C11: NewBot returns a Bot exactly when getMe returned no error.  On an
\* error it returns that error and a nil Bot, and then no fetch is ever
\* made and nothing is sent; on success the Bot carries the given token and
\* the user getMe resolved.
C11_BotIffIdentity ==
    pc # "new" =>
        /\ bot.isNil <=> me.err # NoErr
        /\ newErr = me.err
        /\ ~bot.isNil => (bot.Token = token /\ bot.Identity = me.user)
        /\ bot.isNil =>
              /\ pc \notin {"fetching", "sleeping", "dispatch"}
              /\ maxFetched = 0
              /\ \A s \in SinkNames : sent[s] = <<>>

\* getMe failed, and Listen was called on the nil Bot all the same
C11_Witness == bot.isNil /\ newErr # NoErr /\ pc \notin {"new", "failed"}

\* ---- C12 ----------------------------------------------------------------
\* C12: poll leaves the loop at the select only: never from inside a fetch,
\* a sleep or the range loop, so with stop raised a batch in flight is still
\* processed to its last update; once stop is raised no fetch is started.
C12_StopSeenAtSelectOnly ==
    /\ [][(pc \in {"fetching", "sleeping", "dispatch"}) =>
             (pc' \notin {"returned", "done"})]_vars
    /\ [][(stop /\ pc = "dispatch" /\ pc' # "dispatch") =>
             (pc' = "select" /\ idx = Len(updates))]_vars
    /\ [](pc \in {"returned", "done"} => updates = <<>>)
    /\ [][stop => ~Fetches]_vars

\* stop is raised, and poll is inside a batch, blocked in the send of its
\* second update
C12_Witness ==
    /\ stop
    /\ pc = "dispatch"
    /\ idx = 2
    /\ Target(updates[idx]) \in sinks
    /\ Len(chans[Target(updates[idx])]) = ChanCap

\* ---- C13 ----------------------------------------------------------------
\* poll waits in the send of updates[idx]: the buffer of its sink is full
BlockedSend ==
    /\ pc = "dispatch"
    /\ Target(updates[idx]) \in sinks
    /\ Len(chans[Target(updates[idx])]) >= ChanCap

\* a step of the Listen goroutine
LoopStep ==
    \/ SelectStop
    \/ CallGetUpdates
    \/ GetUpdatesOk
    \/ GetUpdatesErr
    \/ SleepReturn
    \/ ProcessUpdate
    \/ WgDone

\* C13: when fetches return, sleeps end and consumers drain the sinks, a
\* raised stop leads to the exit of poll and to wg.Done; while poll waits in
\* a send to a full sink it can take no step of its own, so without a
\* consumer it stays there.
C13_StopLeadsToDone ==
    /\ (stop ~> wgDone = 1)
    /\ [](BlockedSend => ~ENABLED LoopStep)

\* stop is raised while poll waits in a send to a full sink
C13_Witness == stop /\ BlockedSend /\ wgDone = 0

\* ---- C14 ----------------------------------------------------------------
\* C14: the send to a sink blocks while the sink's buffer is full.  While
\* poll is blocked in a send, no step calls getUpdates, moves the cursor,
\* sends to any sink or leaves the current update; the only change to the
\* full buffer is a consumer taking its first element.  Whatever poll sends
\* from the range loop is the current update, to its own sink, into a buffer
\* that has room; no update at or after the current position of the batch
\* has already been sent.
C14_BlockedSendHoldsLoop ==
    /\ [][BlockedSend =>
             /\ ~Fetches
             /\ latestUpdate' = latestUpdate
             /\ reqMin' = reqMin
             /\ sent' = sent
             /\ pc' = pc /\ idx' = idx /\ updates' = updates
             /\ \A s \in SinkNames :
                   chans'[s] # chans[s] => chans'[s] = Tail(chans[s])]_vars
    /\ [][(sent' # sent) =>
             /\ pc = "dispatch"
             /\ LET u == updates[idx]
                    s == IF u.Payload THEN "Messages"
                         ELSE IF u.Query THEN "Queries" ELSE "Callbacks"
                IN  /\ Len(chans[s]) < ChanCap
                    /\ sent' = [sent EXCEPT ![s] = Append(@, u.ID)]
                    /\ chans' = [chans EXCEPT ![s] = Append(@, u.ID)]]_vars
    /\ [](pc = "dispatch" =>
             \A j \in idx..Len(updates) : \A s \in SinkNames :
                 updates[j].ID \notin Range(sent[s]))

\* poll is blocked in a send while the next update of the batch is for
\* another sink, which is not nil and has room
C14_Witness ==
    /\ BlockedSend
    /\ ~stop
    /\ idx < Len(updates)
    /\ Target(updates[idx + 1]) \in sinks \ {Target(updates[idx])}
    /\ chans[Target(updates[idx + 1])] = <<>>

\* ---- C15 ----------------------------------------------------------------
\* the sinks in the order of their priority, and the field each one carries
Priority == <<"Messages", "Queries", "Callbacks">>

Carries(u, s) ==
    \/ s = "Messages" /\ u.Payload
    \/ s = "Queries" /\ u.Query
    \/ s = "Callbacks" /\ u.Callback

\* the first sink, in the order of priority, whose field u sets
Highest(u) ==
    Priority[CHOOSE i \in 1..Len(Priority) :
                 /\ Carries(u, Priority[i])
                 /\ \A j \in 1..(i - 1) : ~Carries(u, Priority[j])]

\* C15: an update is routed by the first of Payload (message), Query (inline
\* query), Callback (callback press) that it sets.  Processing an update
\* that sets several of them sends it to the sink of the first one and to no
\* other sink; when that sink is nil nothing is sent at all.  Nothing is sent
\* outside the processing of an update.
C15_RoutedByHighestPriority ==
    /\ [][(Processes /\ \E s \in SinkNames : Carries(updates[idx], s)) =>
             LET u == updates[idx]
                 h == Highest(u)
             IN  /\ \A s \in SinkNames \ {h} :
                       sent'[s] = sent[s] /\ chans'[s] = chans[s]
                 /\ h \in sinks =>
                       /\ sent'[h] = Append(sent[h], u.ID)
                       /\ chans'[h] = Append(chans[h], u.ID)
                 /\ h \notin sinks => (sent' = sent /\ chans' = chans)]_vars
    /\ [][(sent' # sent) => Processes]_vars

\* an update setting Payload and Query has been processed with the Messages
\* sink nil and the Queries sink not nil, and nothing has reached Queries
C15_Witness ==
    /\ pc = "dispatch"
    /\ idx > 1
    /\ updates[idx - 1].Payload /\ updates[idx - 1].Query
    /\ "Messages" \notin sinks
    /\ "Queries" \in sinks
    /\ sent["Queries"] = <<>>

\* ---- C16 ----------------------------------------------------------------
\* u sets none of Payload, Query, Callback
NoVariant(u) == ~u.Payload /\ ~u.Query /\ ~u.Callback

\* C16: an update that sets none of Payload, Query and Callback is sent to no
\* sink.  poll never blocks on it, and processing it sets the cursor to its
\* ID, records no error, and leaves poll in the range loop or at the next
\* select.
C16_NoVariantOnlyMovesCursor ==
    /\ [][(Processes /\ NoVariant(updates[idx])) =>
             /\ sent' = sent
             /\ chans' = chans
             /\ latestUpdate' = updates[idx].ID
             /\ lastErr' = lastErr
             /\ stop' = stop]_vars
    /\ [][(pc = "dispatch" /\ NoVariant(updates[idx])) =>
             pc' \in {"dispatch", "select"}]_vars
    /\ [](pc = "dispatch" /\ NoVariant(updates[idx]) => ENABLED ProcessUpdate)

\* with every sink not nil, an update without variant has been processed:
\* the cursor is at its ID and nothing has been sent
C16_Witness ==
    /\ pc = "dispatch"
    /\ idx > 1
    /\ NoVariant(updates[idx - 1])
    /\ latestUpdate = updates[idx - 1].ID
    /\ sinks = SinkNames
    /\ \A s \in SinkNames : sent[s] = <<>>

\* ---- C17 ----------------------------------------------------------------
\* C17: when stop is never raised, getUpdates succeeds again and again and
\* the consumers keep receiving, every update the transport retains whose
\* sink is not nil is eventually sent to that sink, wherever the updates for
\* nil sinks lie among the retained ones.
C17_EveryRoutableDelivered ==
    \A i \in 1..MaxId : \A s \in SinkNames :
        (pc # "ready" /\ s \in sinks /\ log[i] # NoUpdate /\ Target(log[i]) = s)
            ~> (i \in Range(sent[s]))

\* ---- C18 ----------------------------------------------------------------
\* q is t divided by one second, truncated toward zero: q has the sign of t
\* or is zero, and what is left of |t| after |q| seconds is less than a second
IsTruncatedSeconds(q, t) ==
    LET Abs(x) == IF x < 0 THEN -x ELSE x
    IN  /\ q = 0 \/ (q > 0) = (t > 0)
        /\ Abs(t) - Abs(q) * Second >= 0
        /\ Abs(t) - Abs(q) * Second < Second

\* C18: every call of getUpdates passes as timeoutSeconds the timeout of
\* Listen divided by one second, truncated toward zero; the value is the same
\* at every call, and it is 0 for any timeout shorter than one second.
C18_TimeoutTruncatedToSeconds ==
    /\ [][Fetches => IsTruncatedSeconds(reqTimeout', timeout)]_vars
    /\ [][(Fetches /\ reqMin > 0) => reqTimeout' = reqTimeout]_vars
    /\ [](reqMin > 0 /\ timeout < Second /\ timeout > -Second => reqTimeout = 0)

\* a later call of getUpdates, with a positive timeout below one second
C18_Witness ==
    /\ pc = "fetching"
    /\ latestUpdate > 0
    /\ timeout > 0
    /\ timeout < Second
    /\ reqTimeout = 0

====
